---- MODULE Spec2Model ----
(***************************************************************************)
(* Model of the Config resolution engine of frux-technologies/parcel       *)
(* (src/unnamed/part_000): glob matching, spread flattening of pipelines,  *)
(* the plugin loader with its engines.parcel gate and plugin cache, and    *)
(* the phase accessors.  Asynchronous calls are modelled as operations     *)
(* whose synchronous prefix runs in one step and whose pending module      *)
(* resolutions are answered one at a time, in any order.                   *)
(***************************************************************************)
EXTENDS Integers, Sequences, FiniteSets, TLC

\* ------------------------------------------------------------------------
\* Bounds of the model
\* ------------------------------------------------------------------------
\* longest pipeline drawn for an entry of a glob map
MaxPipe == 2
\* number of engine operations (calls of the public surface) in one behaviour
MaxOps == 2

\* ------------------------------------------------------------------------
\* Values
\* ------------------------------------------------------------------------
\* the spread marker '...' of a pipeline
SPREAD == "..."

\* plugin identifiers (PackageName)
PluginNames == {"p1", "p2", "p3"}

\* entries a pipeline of the configuration may hold
PipelineEntries == {"p1", "p2", SPREAD}

RECURSIVE SeqsUpTo(_, _)
SeqsUpTo(S, n) ==
  IF n = 0 THEN {<<>>}
  ELSE LET shorter == SeqsUpTo(S, n - 1)
       IN shorter \cup {Append(s, x) : s \in {t \in shorter : Len(t) = n - 1}, x \in S}

\* the pipelines of glob map entries: a plugin is named at most once in a
\* pipeline, the spread marker any number of times
Pipelines ==
  {s \in SeqsUpTo(PipelineEntries, MaxPipe) :
     \A i, j \in 1..Len(s) : (i # j /\ s[i] = s[j]) => s[i] = SPREAD}

\* A file path is a sequence of segments ('/'-separated); a segment is the
\* sequence of its '.'-separated parts: "src/x.module.css" is
\* << <<"src">>, <<"x","module","css">> >>.
PathXModuleCss == << <<"x", "module", "css">> >>
PathSrcXModuleCss == << <<"src">>, <<"x", "module", "css">> >>
PathAJs == << <<"a", "js">> >>
FilePaths == {PathXModuleCss, PathSrcXModuleCss, PathAJs}

\* A glob is a sequence of segment patterns; a segment pattern is either a
\* literal segment or '*' followed by a literal suffix ("*.css").
Lit(parts) == [star |-> FALSE, suffix |-> parts]
Star(parts) == [star |-> TRUE, suffix |-> parts]
GlobCss == << Star(<<"css">>) >>
GlobModuleCss == << Star(<<"module", "css">>) >>
GlobSrcCss == << Lit(<<"src">>), Star(<<"css">>) >>
Globs == {GlobCss, GlobModuleCss, GlobSrcCss}

\* ------------------------------------------------------------------------
\* Glob matching (isMatch of micromatch, basename of path)
\* ------------------------------------------------------------------------
\* '*' matches a non-empty run of characters that holds no '/'
SegmentMatch(seg, pat) ==
  IF pat.star
  THEN /\ Len(seg) > Len(pat.suffix)
       /\ SubSeq(seg, Len(seg) - Len(pat.suffix) + 1, Len(seg)) = pat.suffix
  ELSE seg = pat.suffix

isMatch(filePath, pattern) ==
  /\ Len(filePath) = Len(pattern)
  /\ \A i \in 1..Len(pattern) : SegmentMatch(filePath[i], pattern[i])

basename(filePath) == << filePath[Len(filePath)] >>

isGlobMatchBasenameOnly(filePath, pattern) == isMatch(basename(filePath), pattern)

isGlobMatch(filePath, pattern) ==
  isMatch(filePath, pattern) \/ isMatch(basename(filePath), pattern)

\* ------------------------------------------------------------------------
\* Glob maps: a JavaScript object iterated by for-in, i.e. the sequence of
\* its (pattern, value) entries in insertion order, patterns distinct
\* ------------------------------------------------------------------------
Entry(p, v) == [pattern |-> p, value |-> v]

\* indices of the entries whose pattern matches, in declaration order
MatchingIndices(filePath, globMap) ==
  {i \in 1..Len(globMap) : isGlobMatch(filePath, globMap[i].pattern)}

NULL == "null"

\* matchGlobMap: the value of the last matching pattern (a plausible slip)
matchGlobMapLast(filePath, globMap) ==
  LET hits == MatchingIndices(filePath, globMap)
  IN IF hits = {} THEN NULL
     ELSE globMap[CHOOSE i \in hits : \A j \in hits : j <= i].value

RECURSIVE matchGlobMapFrom(_, _, _)
matchGlobMapFrom(filePath, globMap, i) ==
  IF i > Len(globMap) THEN NULL
  ELSE IF isGlobMatch(filePath, globMap[i].pattern) THEN globMap[i].value
  ELSE matchGlobMapFrom(filePath, globMap, i + 1)

matchGlobMap(filePath, globMap) == matchGlobMapFrom(filePath, globMap, 1)

\* a first loop that pushes the pipeline of every entry, matching or not
RECURSIVE CollectMatchesUnfiltered(_, _, _)
CollectMatchesUnfiltered(filePath, globMap, i) ==
  IF i > Len(globMap) THEN <<>>
  ELSE <<globMap[i].value>> \o CollectMatchesUnfiltered(filePath, globMap, i + 1)

\* the matches array built by the first loop of matchGlobMapPipelines
RECURSIVE CollectMatches(_, _, _)
CollectMatches(filePath, globMap, i) ==
  IF i > Len(globMap) THEN <<>>
  ELSE (IF isGlobMatch(filePath, globMap[i].pattern) THEN <<globMap[i].value>> ELSE <<>>)
       \o CollectMatches(filePath, globMap, i + 1)

\* Array.prototype.indexOf, 1-based; 0 stands for -1
indexOf(pipeline, x) ==
  IF \E i \in 1..Len(pipeline) : pipeline[i] = x
  THEN CHOOSE i \in 1..Len(pipeline) :
         pipeline[i] = x /\ \A j \in 1..(i - 1) : pipeline[j] # x
  ELSE 0

includes(pipeline, x) == \E i \in 1..Len(pipeline) : pipeline[i] = x

\* the check of lines 196-200 left out
SpreadCheckNever(pipeline) == FALSE

SpreadCheck(pipeline) == includes(pipeline, SPREAD)

\* the splice of lines 189-193 with the tail before the spliced pipeline
SpliceTailFirst(pipeline, spreadIndex, inner) ==
  SubSeq(pipeline, 1, spreadIndex - 1)
    \o SubSeq(pipeline, spreadIndex + 1, Len(pipeline)) \o inner

Splice(pipeline, spreadIndex, inner) ==
  SubSeq(pipeline, 1, spreadIndex - 1)
    \o inner \o SubSeq(pipeline, spreadIndex + 1, Len(pipeline))

\* a flatten without the "|| []" of line 186: shifting from the exhausted
\* queue gives undefined, and indexOf of undefined throws
RECURSIVE flattenNoDefault(_)
flattenNoDefault(matches) ==
  IF matches = <<>>
  THEN [threw |-> TRUE, pipeline |-> <<>>, rest |-> <<>>, depth |-> 1]
  ELSE LET pipeline0 == Head(matches)
           rest0 == Tail(matches)
           spreadIndex == indexOf(pipeline0, SPREAD)
       IN IF spreadIndex >= 1
          THEN LET inner == flattenNoDefault(rest0)
                   pipeline == Splice(pipeline0, spreadIndex, inner.pipeline)
               IN [threw |-> inner.threw \/ SpreadCheck(pipeline),
                   pipeline |-> IF inner.threw \/ SpreadCheck(pipeline)
                                THEN <<>> ELSE pipeline,
                   rest |-> inner.rest, depth |-> inner.depth + 1]
          ELSE [threw |-> SpreadCheck(pipeline0),
                pipeline |-> IF SpreadCheck(pipeline0) THEN <<>> ELSE pipeline0,
                rest |-> rest0, depth |-> 1]

\* flatten(): matches is the queue it shifts from.  The result carries the
\* returned pipeline, whether the composition error was thrown, the queue
\* left behind and the depth of the recursion.
RECURSIVE flatten(_)
flatten(matches) ==
  LET pipeline0 == IF matches = <<>> THEN <<>> ELSE Head(matches)
      rest0 == IF matches = <<>> THEN <<>> ELSE Tail(matches)
      spreadIndex == indexOf(pipeline0, SPREAD)
  IN IF spreadIndex >= 1
     THEN LET inner == flatten(rest0)
              pipeline == Splice(pipeline0, spreadIndex, inner.pipeline)
          IN IF inner.threw
             THEN [threw |-> TRUE, pipeline |-> <<>>, rest |-> inner.rest,
                   depth |-> inner.depth + 1]
             ELSE IF SpreadCheck(pipeline)
             THEN [threw |-> TRUE, pipeline |-> <<>>, rest |-> inner.rest,
                   depth |-> inner.depth + 1]
             ELSE [threw |-> FALSE, pipeline |-> pipeline, rest |-> inner.rest,
                   depth |-> inner.depth + 1]
     ELSE IF SpreadCheck(pipeline0)
     THEN [threw |-> TRUE, pipeline |-> <<>>, rest |-> rest0, depth |-> 1]
     ELSE [threw |-> FALSE, pipeline |-> pipeline0, rest |-> rest0, depth |-> 1]

\* a lookup that checks every matched pipeline for a doubled spread marker
\* before it flattens
matchGlobMapPipelinesValidating(filePath, globMap) ==
  LET matches == CollectMatches(filePath, globMap, 1)
  IN IF \E i \in 1..Len(matches) : \E a, b \in 1..Len(matches[i]) :
          a # b /\ matches[i][a] = SPREAD /\ matches[i][b] = SPREAD
     THEN [threw |-> TRUE, pipeline |-> <<>>, rest |-> <<>>, depth |-> 1]
     ELSE flatten(matches)

matchGlobMapPipelines(filePath, globMap) ==
  flatten(CollectMatches(filePath, globMap, 1))

\* ------------------------------------------------------------------------
\* The collaborators: semver, localRequire.resolve, require
\* ------------------------------------------------------------------------
\* versions are <<major, minor, patch>>; a range is a caret range "^M.m.p",
\* written as its base version
Range200 == <<2, 0, 0>>
HostVersions == {<<1, 9, 0>>, <<2, 3, 1>>}

VersionGte(v, w) ==
  \/ v[1] > w[1]
  \/ v[1] = w[1] /\ v[2] > w[2]
  \/ v[1] = w[1] /\ v[2] = w[2] /\ v[3] >= w[3]

\* semver.satisfies(version, "^M.m.p"): at least the base version, and no
\* change of the leftmost non-zero component
satisfies(version, range) ==
  /\ VersionGte(version, range)
  /\ IF range[1] > 0 THEN version[1] = range[1]
     ELSE IF range[2] > 0 THEN version[1] = 0 /\ version[2] = range[2]
     ELSE version[1] = 0 /\ version[2] = 0 /\ version[3] = range[3]

\* the engines.parcel field of a package.json; <<>> is an absent field
NoRange == <<>>

\* localRequire.resolve(pluginName, configPath): p1 declares
\* engines.parcel "^2.0.0", p2 declares no range, p3 cannot be found
resolve(pluginName, basePath) ==
  IF pluginName = "p1"
  THEN [found |-> TRUE, resolved |-> "node_modules/p1", pkg |-> [parcel |-> Range200]]
  ELSE IF pluginName = "p2"
  THEN [found |-> TRUE, resolved |-> "node_modules/p2", pkg |-> [parcel |-> NoRange]]
  ELSE [found |-> FALSE, resolved |-> "", pkg |-> [parcel |-> NoRange]]

\* objects: the capability object a module exports under the CONFIG key
Undefined == [CONFIG |-> "undefined"]
Truthy(v) == v # Undefined

\* require(resolved): the module instance of Node's module cache.  p2 is an
\* ES module behind a default export, p1 a CommonJS module.
require(resolved) ==
  IF resolved = "node_modules/p2"
  THEN [hasDefault |-> TRUE, CONFIG |-> Undefined,
        default |-> [CONFIG |-> "config of p2"]]
  ELSE IF resolved = "node_modules/p1"
  THEN [hasDefault |-> FALSE, CONFIG |-> [CONFIG |-> "config of p1"],
        default |-> Undefined]
  ELSE [hasDefault |-> FALSE, CONFIG |-> Undefined, default |-> Undefined]

\* lines 83-85: unwrap the default export, read the CONFIG key
ExtractPlugin(module) ==
  IF module.hasDefault THEN module.default ELSE module.CONFIG

\* ------------------------------------------------------------------------
\* Configuration records and the constructor
\* ------------------------------------------------------------------------
ConfigFields == {"resolvers", "transforms", "bundler", "namers", "runtimes",
                 "packagers", "optimizers", "reporters"}

Contexts == {"browser", "node"}

\* a ParcelConfig record: has names the fields that are present
FullRecord ==
  [has |-> ConfigFields,
   resolvers |-> <<"p3", "p2">>,
   transforms |-> <<Entry(GlobModuleCss, <<"p1", SPREAD>>), Entry(GlobCss, <<"p2">>)>>,
   bundler |-> "p2",
   namers |-> <<"p2">>,
   runtimes |-> <<Entry("browser", <<"p2", "p1">>)>>,
   packagers |-> <<Entry(GlobCss, "p1"), Entry(GlobModuleCss, "p2")>>,
   optimizers |-> <<Entry(GlobSrcCss, <<"p2">>)>>,
   reporters |-> <<"p2">>]

\* no field present
AbsentRecord ==
  [has |-> {}, resolvers |-> <<>>, transforms |-> <<>>, bundler |-> "",
   namers |-> <<>>, runtimes |-> <<>>, packagers |-> <<>>, optimizers |-> <<>>,
   reporters |-> <<>>]

\* resolvers and namers present and empty, no bundler, pipelines that compose
\* to nothing, a doubled spread marker, a plugin that cannot be found
OddRecord ==
  [has |-> ConfigFields \ {"bundler"},
   resolvers |-> <<>>,
   transforms |-> <<Entry(GlobSrcCss, <<SPREAD, SPREAD>>),
                    Entry(GlobModuleCss, <<SPREAD>>), Entry(GlobCss, <<>>)>>,
   bundler |-> "",
   namers |-> <<>>,
   runtimes |-> <<Entry("node", <<>>)>>,
   packagers |-> <<Entry(GlobSrcCss, "p3")>>,
   optimizers |-> <<Entry(GlobCss, <<SPREAD, SPREAD>>), Entry(GlobModuleCss, <<"p1">>)>>,
   reporters |-> <<>>]

ParcelConfigs == {FullRecord, AbsentRecord, OddRecord}

ConfigPaths == {"/project/.parcelrc"}

\* config.f || dflt
OrDefault(record, f, dflt) == IF f \in record.has THEN record[f] ELSE dflt

\* the constructor, lines 41-52, without the plugin cache
Constructor(record, filePath) ==
  [configPath |-> filePath,
   resolvers |-> OrDefault(record, "resolvers", <<>>),
   transforms |-> OrDefault(record, "transforms", <<>>),
   runtimes |-> OrDefault(record, "runtimes", <<>>),
   bundler |-> OrDefault(record, "bundler", ""),
   namers |-> OrDefault(record, "namers", <<>>),
   packagers |-> OrDefault(record, "packagers", <<>>),
   optimizers |-> OrDefault(record, "optimizers", <<>>),
   reporters |-> OrDefault(record, "reporters", <<>>)]

\* this.runtimes[context]: the pipeline of the entry keyed context
HasKey(map, key) == \E i \in 1..Len(map) : map[i].pattern = key
Lookup(map, key) == map[CHOOSE i \in 1..Len(map) : map[i].pattern = key].value

\* ------------------------------------------------------------------------
\* State
\* ------------------------------------------------------------------------
VARIABLES
  PARCEL_VERSION,  \* the host version read from package.json
  parcelConfig,    \* the configuration record the engine was constructed from
  config,          \* the registry fields and configPath of the engine
  pluginCache,     \* this.pluginCache: a function from the cached names
  ops,             \* the calls with a load still suspended, in call order
  done,            \* the calls whose loads have all ended
  nCalls,          \* number of calls made on the engine
  resolveCount,    \* per name, the calls of localRequire.resolve
  gateCount,       \* per name, the runs of the engines.parcel validation
  warnCount,       \* per name, the logger.warn calls
  gPath,           \* glob lookups: the file path
  gMap,            \* glob lookups: the glob map
  gKind,           \* glob lookups: "pipelines" or "values", what gMap maps to
  gOut             \* glob lookups: what the last lookup returned

engineVars == <<PARCEL_VERSION, parcelConfig, config, pluginCache, ops, done,
                nCalls, resolveCount, gateCount, warnCount>>
globVars == <<gPath, gMap, gKind, gOut>>
vars == <<PARCEL_VERSION, parcelConfig, config, pluginCache, ops, done, nCalls,
          resolveCount, gateCount, warnCount, gPath, gMap, gKind, gOut>>

\* ------------------------------------------------------------------------
\* The plugin cache (a Map) and the loader
\* ------------------------------------------------------------------------
EmptyMap == [n \in {} |-> Undefined]

\* Map.prototype.get: undefined for a missing key
Get(cache, name) == IF name \in DOMAIN cache THEN cache[name] ELSE Undefined

\* Map.prototype.set
Set(cache, name, v) ==
  [n \in (DOMAIN cache) \cup {name} |-> IF n = name THEN v ELSE cache[n]]

\* a cache check that never hits
CacheHitNever(cache, pluginName) == FALSE

\* lines 55-56: cached = this.pluginCache.get(pluginName); if (cached)
CacheHit(cache, pluginName) == Truthy(Get(cache, pluginName))

\* lines 54-63, the part of loadPlugin that runs before its await: a cache
\* hit fulfils the promise, a miss calls localRequire.resolve and suspends;
\* attempts counts the calls of localRequire.resolve this load has made
loadPluginSync(pluginName, cache) ==
  IF CacheHit(cache, pluginName)
  THEN [name |-> pluginName, st |-> "ok", val |-> Get(cache, pluginName),
        err |-> "", cached |-> TRUE, after |-> FALSE, attempts |-> 0]
  ELSE [name |-> pluginName, st |-> "resolving", val |-> Undefined,
        err |-> "", cached |-> FALSE, after |-> FALSE, attempts |-> 1]

\* a gate that lets every plugin through
GateThrowsNever(version, parcelVersionRange) == FALSE

\* a gate that also rejects a plugin that declares no range
GateThrowsOnAbsent(version, parcelVersionRange) ==
  \/ parcelVersionRange = NoRange
  \/ ~satisfies(version, parcelVersionRange)

\* lines 73-76: a range is declared and the host version does not satisfy it
GateThrows(version, parcelVersionRange) ==
  /\ parcelVersionRange # NoRange
  /\ ~satisfies(version, parcelVersionRange)

\* a load that answers a rejection of localRequire.resolve by asking again
loadPluginResumeRetry(pluginName, version, basePath) ==
  LET r == resolve(pluginName, basePath)
      parcelVersionRange == r.pkg.parcel
  IN IF ~r.found
     THEN [st |-> "resolving", err |-> "", val |-> Undefined,
           gated |-> FALSE, warned |-> FALSE, resolves |-> 1]
     ELSE IF GateThrows(version, parcelVersionRange)
     THEN [st |-> "err", err |-> "incompatible", val |-> Undefined,
           gated |-> TRUE, warned |-> parcelVersionRange = NoRange,
           resolves |-> 0]
     ELSE [st |-> "ok", err |-> "", val |-> ExtractPlugin(require(r.resolved)),
           gated |-> TRUE, warned |-> parcelVersionRange = NoRange,
           resolves |-> 0]

\* lines 60-87, the part of loadPlugin that runs once localRequire.resolve
\* has answered: a rejection of resolve rejects the load; otherwise the
\* engines.parcel validation and, if it passes, require and the cache entry.
\* resolves is the number of further calls of localRequire.resolve the
\* resumed code makes: there is none on any path
loadPluginResume(pluginName, version, basePath) ==
  LET r == resolve(pluginName, basePath)
      parcelVersionRange == r.pkg.parcel
  IN IF ~r.found
     THEN [st |-> "err", err |-> "not found", val |-> Undefined,
           gated |-> FALSE, warned |-> FALSE, resolves |-> 0]
     ELSE IF GateThrows(version, parcelVersionRange)
     THEN [st |-> "err", err |-> "incompatible", val |-> Undefined,
           gated |-> TRUE, warned |-> parcelVersionRange = NoRange,
           resolves |-> 0]
     ELSE [st |-> "ok", err |-> "", val |-> ExtractPlugin(require(r.resolved)),
           gated |-> TRUE, warned |-> parcelVersionRange = NoRange,
           resolves |-> 0]

\* a cache write that drops the other entries
CacheAfterLoadClobber(cache, pluginName, out) ==
  IF out.st = "ok" THEN [n \in {pluginName} |-> out.val] ELSE cache

\* line 86, reached only by a load that did not throw
CacheAfterLoad(cache, pluginName, out) ==
  IF out.st = "ok" THEN Set(cache, pluginName, out.val) ELSE cache

\* the values in the order in which the loads completed
PromiseAllByCompletion(slots, order) ==
  [i \in 1..Len(order) |-> slots[order[i]].val]

\* Promise.all of line 91: the values by index of the input
PromiseAllValues(slots, order) == [i \in 1..Len(slots) |-> slots[i].val]

\* The promise of an operation over its loads: rejected by the first load
\* that rejects, fulfilled when every load is fulfilled.
Settle(op) ==
  IF op.status # "pending" THEN op
  ELSE IF \E i \in 1..Len(op.slots) : op.slots[i].st = "err"
  THEN [op EXCEPT !.status = "err",
                  !.err = op.slots[CHOOSE i \in 1..Len(op.slots) : op.slots[i].st = "err"].err]
  ELSE IF \A i \in 1..Len(op.slots) : op.slots[i].st = "ok"
  THEN [op EXCEPT !.status = "ok", !.ret = PromiseAllValues(op.slots, op.order)]
  ELSE op

\* indices of the slots fulfilled at once, in index order
RECURSIVE OkIndices(_, _)
OkIndices(slots, i) ==
  IF i > Len(slots) THEN <<>>
  ELSE (IF slots[i].st = "ok" THEN <<i>> ELSE <<>>) \o OkIndices(slots, i + 1)

\* every call made so far
AllOps == done \cup {ops[o] : o \in 1..Len(ops)}

\* the names of which some load has completed successfully
LoadedNames ==
  {n \in PluginNames :
     \E op \in AllOps : \E i \in 1..Len(op.slots) :
       op.slots[i].name = n /\ op.slots[i].st = "ok"}

\* an operation that issues the loads of names (plugins.map of line 91, or
\* the one loadPlugin call of a single-plugin operation).  Each load notes
\* (after) whether a load of its name had already completed successfully.
Loading(kind, filePath, context, names, cache) ==
  LET slots == [i \in 1..Len(names) |->
                  [loadPluginSync(names[i], cache) EXCEPT
                     !.after = names[i] \in LoadedNames]]
  IN Settle([kind |-> kind, filePath |-> filePath, context |-> context,
             names |-> names, slots |-> slots, order |-> OkIndices(slots, 1),
             status |-> "pending", ret |-> <<>>, err |-> ""])

\* an operation that throws before any load
Thrown(kind, filePath, error) ==
  [kind |-> kind, filePath |-> filePath, context |-> "", names |-> <<>>,
   slots |-> <<>>, order |-> <<>>, status |-> "err", ret |-> <<>>, err |-> error]

\* an operation that returns [] before any load
ReturnedEmpty(kind, context) ==
  [kind |-> kind, filePath |-> <<>>, context |-> context, names |-> <<>>,
   slots |-> <<>>, order |-> <<>>, status |-> "ok", ret |-> <<>>, err |-> ""]

\* indices of the loads of op still waiting for the resolver
Suspended(op) == {i \in 1..Len(op.slots) : op.slots[i].st = "resolving"}

\* number of loads of op that called the resolver for name
Issued(op, name) == Cardinality({i \in Suspended(op) : op.slots[i].name = name})

\* ops without its o-th element
RemoveAt(seq, o) == SubSeq(seq, 1, o - 1) \o SubSeq(seq, o + 1, Len(seq))

\* the call op is made: its suspended loads have called the resolver
Begin(op) ==
  /\ nCalls < MaxOps
  /\ nCalls' = nCalls + 1
  /\ IF Suspended(op) = {}
     THEN done' = done \cup {op} /\ ops' = ops
     ELSE ops' = Append(ops, op) /\ done' = done
  /\ resolveCount' = [n \in PluginNames |-> resolveCount[n] + Issued(op, n)]
  /\ UNCHANGED <<PARCEL_VERSION, parcelConfig, config, pluginCache, gateCount,
                 warnCount>>
  /\ UNCHANGED globVars

\* ------------------------------------------------------------------------
\* The operations of the engine
\* ------------------------------------------------------------------------
NoPath == <<>>

\* loadPlugin(pluginName), lines 54-63
loadPlugin(pluginName) ==
  Begin(Loading("loadPlugin", NoPath, "", <<pluginName>>, pluginCache))

\* loadPlugins(plugins), lines 90-92
loadPlugins(plugins) ==
  Begin(Loading("loadPlugins", NoPath, "", plugins, pluginCache))

\* getResolvers that loads whatever is configured, without the check
getResolversUnchecked ==
  Begin(Loading("getResolvers", NoPath, "", config.resolvers, pluginCache))

\* getResolvers(), lines 94-100
getResolvers ==
  Begin(IF Len(config.resolvers) = 0
        THEN Thrown("getResolvers", NoPath, "No resolver plugins specified")
        ELSE Loading("getResolvers", NoPath, "", config.resolvers, pluginCache))

\* a getTransformers whose flatten shifts the pipelines off the registry
\* itself instead of off a private queue
getTransformersConsuming(filePath) ==
  LET transformers == matchGlobMapPipelines(filePath, config.transforms)
      op == IF transformers.threw
            THEN Thrown("getTransformers", filePath, "Only one spread parameter")
            ELSE IF Len(transformers.pipeline) = 0
            THEN Thrown("getTransformers", filePath, "No transformers found")
            ELSE Loading("getTransformers", filePath, "", transformers.pipeline,
                         pluginCache)
  IN /\ nCalls < MaxOps
     /\ nCalls' = nCalls + 1
     /\ IF Suspended(op) = {}
        THEN done' = done \cup {op} /\ ops' = ops
        ELSE ops' = Append(ops, op) /\ done' = done
     /\ resolveCount' = [n \in PluginNames |-> resolveCount[n] + Issued(op, n)]
     /\ config' = [config EXCEPT !.transforms = transformers.rest]
     /\ UNCHANGED <<PARCEL_VERSION, parcelConfig, pluginCache, gateCount,
                    warnCount>>
     /\ UNCHANGED globVars

\* getTransformers(filePath), lines 102-112
getTransformers(filePath) ==
  LET transformers == matchGlobMapPipelines(filePath, config.transforms)
  IN Begin(IF transformers.threw
           THEN Thrown("getTransformers", filePath, "Only one spread parameter")
           ELSE IF Len(transformers.pipeline) = 0
           THEN Thrown("getTransformers", filePath, "No transformers found")
           ELSE Loading("getTransformers", filePath, "", transformers.pipeline,
                        pluginCache))

\* getBundler(), lines 114-120
getBundler ==
  Begin(IF config.bundler = ""
        THEN Thrown("getBundler", NoPath, "No bundler specified")
        ELSE Loading("getBundler", NoPath, "", <<config.bundler>>, pluginCache))

\* getNamers(), lines 122-128
getNamers ==
  Begin(IF Len(config.namers) = 0
        THEN Thrown("getNamers", NoPath, "No namer plugins specified")
        ELSE Loading("getNamers", NoPath, "", config.namers, pluginCache))

\* getRuntimes(context), lines 130-137
getRuntimes(context) ==
  Begin(IF ~HasKey(config.runtimes, context)
        THEN ReturnedEmpty("getRuntimes", context)
        ELSE Loading("getRuntimes", NoPath, context,
                     Lookup(config.runtimes, context), pluginCache))

\* a getPackager that loads the looked-up name before it checks it
getPackagerLate(filePath) ==
  LET packagerName == matchGlobMap(filePath, config.packagers)
  IN Begin(Loading("getPackager", filePath, "", <<packagerName>>, pluginCache))

\* getPackager(filePath), lines 139-149
getPackager(filePath) ==
  LET packagerName == matchGlobMap(filePath, config.packagers)
  IN Begin(IF packagerName = NULL
           THEN Thrown("getPackager", filePath, "No packager found")
           ELSE Loading("getPackager", filePath, "", <<packagerName>>, pluginCache))

\* getOptimizers that treats an empty pipeline as getTransformers does
getOptimizersStrict(filePath) ==
  LET optimizers == matchGlobMapPipelines(filePath, config.optimizers)
  IN Begin(IF optimizers.threw
           THEN Thrown("getOptimizers", filePath, "Only one spread parameter")
           ELSE IF Len(optimizers.pipeline) = 0
           THEN Thrown("getOptimizers", filePath, "No optimizers found")
           ELSE Loading("getOptimizers", filePath, "", optimizers.pipeline,
                        pluginCache))

\* getOptimizers(filePath), lines 151-161: the result of
\* matchGlobMapPipelines is an array, which is never falsy
getOptimizers(filePath) ==
  LET optimizers == matchGlobMapPipelines(filePath, config.optimizers)
  IN Begin(IF optimizers.threw
           THEN Thrown("getOptimizers", filePath, "Only one spread parameter")
           ELSE Loading("getOptimizers", filePath, "", optimizers.pipeline,
                        pluginCache))

\* a resumption that abandons the loads of a call that has already failed
ResolveReturnsAbandoning(o, i) ==
  /\ o \in 1..Len(ops)
  /\ i \in Suspended(ops[o])
  /\ LET name == ops[o].slots[i].name
         out == IF ops[o].status = "err"
                THEN [st |-> "err", err |-> "abandoned", val |-> Undefined,
                      gated |-> FALSE, warned |-> FALSE, resolves |-> 0]
                ELSE loadPluginResume(name, PARCEL_VERSION, config.configPath)
         op == Settle([ops[o] EXCEPT !.slots[i].st = out.st,
                                     !.slots[i].val = out.val,
                                     !.slots[i].err = out.err,
                                     !.order = Append(@, i)])
     IN /\ IF Suspended(op) = {}
           THEN ops' = RemoveAt(ops, o) /\ done' = done \cup {op}
           ELSE ops' = [ops EXCEPT ![o] = op] /\ done' = done
        /\ pluginCache' = CacheAfterLoad(pluginCache, name, out)
        /\ gateCount' = [gateCount EXCEPT ![name] = @ + (IF out.gated THEN 1 ELSE 0)]
        /\ warnCount' = [warnCount EXCEPT ![name] = @ + (IF out.warned THEN 1 ELSE 0)]
  /\ UNCHANGED <<PARCEL_VERSION, parcelConfig, config, nCalls, resolveCount>>
  /\ UNCHANGED globVars

\* localRequire.resolve answers the i-th load of the call ops[o], and the
\* load runs to its end (lines 60-87); the promise of the call settles
ResolveReturns(o, i) ==
  /\ o \in 1..Len(ops)
  /\ i \in Suspended(ops[o])
  /\ LET name == ops[o].slots[i].name
         out == loadPluginResume(name, PARCEL_VERSION, config.configPath)
         op == Settle([ops[o] EXCEPT !.slots[i].st = out.st,
                                     !.slots[i].val = out.val,
                                     !.slots[i].err = out.err,
                                     !.slots[i].attempts = @ + out.resolves,
                                     !.order = IF out.st = "resolving"
                                               THEN @ ELSE Append(@, i)])
     IN /\ IF Suspended(op) = {}
           THEN ops' = RemoveAt(ops, o) /\ done' = done \cup {op}
           ELSE ops' = [ops EXCEPT ![o] = op] /\ done' = done
        /\ pluginCache' = CacheAfterLoad(pluginCache, name, out)
        /\ gateCount' = [gateCount EXCEPT ![name] = @ + (IF out.gated THEN 1 ELSE 0)]
        /\ warnCount' = [warnCount EXCEPT ![name] = @ + (IF out.warned THEN 1 ELSE 0)]
        /\ resolveCount' = [resolveCount EXCEPT ![name] = @ + out.resolves]
  /\ UNCHANGED <<PARCEL_VERSION, parcelConfig, config, nCalls>>
  /\ UNCHANGED globVars

\* ------------------------------------------------------------------------
\* The engine: constructed from a configuration record, then called
\* ------------------------------------------------------------------------
Zero == [n \in PluginNames |-> 0]

NoOut ==
  [called |-> "none", pattern |-> <<>>, matched |-> FALSE, value |-> NULL,
   threw |-> FALSE, pipeline |-> <<>>, depth |-> 0, matches |-> 0]

Init ==
  /\ PARCEL_VERSION \in HostVersions
  /\ parcelConfig \in ParcelConfigs
  /\ \E filePath \in ConfigPaths : config = Constructor(parcelConfig, filePath)
  /\ pluginCache = EmptyMap
  /\ ops = <<>>
  /\ done = {}
  /\ nCalls = 0
  /\ resolveCount = Zero
  /\ gateCount = Zero
  /\ warnCount = Zero
  /\ gPath = PathAJs
  /\ gMap = <<>>
  /\ gKind = "pipelines"
  /\ gOut = NoOut

\* the pipelines of ad-hoc loadPlugins calls: none, or two of the plugins the
\* resolver can find (the same one twice included)
AdHocPipelines == {<<>>} \cup {<<a, b>> : a, b \in {"p1", "p2"}}

\* the paths the phase accessors are asked about
AssetPaths == {PathXModuleCss, PathSrcXModuleCss}

Next ==
  \/ \E pluginName \in PluginNames : loadPlugin(pluginName)
  \/ \E plugins \in AdHocPipelines : loadPlugins(plugins)
  \/ getResolvers
  \/ \E filePath \in AssetPaths : getTransformers(filePath)
  \/ getBundler
  \/ getNamers
  \/ \E context \in Contexts : getRuntimes(context)
  \/ \E filePath \in AssetPaths : getPackager(filePath)
  \/ \E filePath \in AssetPaths : getOptimizers(filePath)
  \/ \E o \in 1..Len(ops) : \E i \in Suspended(ops[o]) : ResolveReturns(o, i)

Spec == Init /\ [][Next]_vars

\* The engine on an event loop whose module resolver answers: a load that
\* waits at the await of line 60 is resumed sooner or later
SpecFair ==
  /\ Init
  /\ [][Next]_vars
  /\ WF_vars(\E o \in 1..Len(ops) : \E i \in Suspended(ops[o]) : ResolveReturns(o, i))

\* ------------------------------------------------------------------------
\* The glob lookups on their own: a path and a glob map are drawn, and
\* isGlobMatch, matchGlobMap and matchGlobMapPipelines are applied to them
\* ------------------------------------------------------------------------
InitGlob ==
  /\ PARCEL_VERSION = <<2, 3, 1>>
  /\ parcelConfig = AbsentRecord
  /\ \E filePath \in ConfigPaths : config = Constructor(parcelConfig, filePath)
  /\ pluginCache = EmptyMap
  /\ ops = <<>>
  /\ done = {}
  /\ nCalls = 0
  /\ resolveCount = Zero
  /\ gateCount = Zero
  /\ warnCount = Zero
  /\ gPath = PathAJs
  /\ gMap = <<>>
  /\ gKind \in {"pipelines", "values"}
  /\ gOut = NoOut

\* the glob map is written down entry by entry: a pattern not yet declared,
\* with a pipeline (transforms, optimizers) or a plugin name (packagers)
DeclareEntry(pattern, value) ==
  /\ gOut.called = "none"
  /\ ~HasKey(gMap, pattern)
  /\ gMap' = Append(gMap, Entry(pattern, value))
  /\ UNCHANGED <<gPath, gKind, gOut>>
  /\ UNCHANGED engineVars

\* isGlobMatch(filePath, pattern), lines 163-165
CallIsGlobMatch(filePath, pattern) ==
  /\ gOut.called = "none"
  /\ gMap = <<>>
  /\ gPath' = filePath
  /\ gOut' = [NoOut EXCEPT !.called = "isGlobMatch", !.pattern = pattern,
                           !.matched = isGlobMatch(filePath, pattern)]
  /\ UNCHANGED <<gMap, gKind>>
  /\ UNCHANGED engineVars

\* matchGlobMap(filePath, globMap), lines 167-175
CallMatchGlobMap(filePath) ==
  /\ gOut.called = "none"
  /\ gKind = "values"
  /\ gPath' = filePath
  /\ gOut' = [NoOut EXCEPT !.called = "matchGlobMap",
                           !.value = matchGlobMap(filePath, gMap)]
  /\ UNCHANGED <<gMap, gKind>>
  /\ UNCHANGED engineVars

\* matchGlobMapPipelines(filePath, globMap), lines 177-207
CallMatchGlobMapPipelines(filePath) ==
  /\ gOut.called = "none"
  /\ gKind = "pipelines"
  /\ gPath' = filePath
  /\ LET res == matchGlobMapPipelines(filePath, gMap)
     IN gOut' = [NoOut EXCEPT !.called = "matchGlobMapPipelines",
                              !.threw = res.threw, !.pipeline = res.pipeline,
                              !.depth = res.depth,
                              !.matches = Len(CollectMatches(filePath, gMap, 1))]
  /\ UNCHANGED <<gMap, gKind>>
  /\ UNCHANGED engineVars

NextGlob ==
  \/ \E pattern \in Globs : \E value \in Pipelines :
       gKind = "pipelines" /\ DeclareEntry(pattern, value)
  \/ \E pattern \in Globs : \E value \in PluginNames :
       gKind = "values" /\ DeclareEntry(pattern, value)
  \/ \E filePath \in FilePaths : \E pattern \in Globs : CallIsGlobMatch(filePath, pattern)
  \/ \E filePath \in FilePaths : CallMatchGlobMap(filePath)
  \/ \E filePath \in FilePaths : CallMatchGlobMapPipelines(filePath)

SpecGlob == InitGlob /\ [][NextGlob]_vars

\* ------------------------------------------------------------------------
\* Properties of the loader
\* ------------------------------------------------------------------------
\* the loads of the call op
Slots(op) == {op.slots[i] : i \in 1..Len(op.slots)}

\* the loads of name that are waiting for the resolver
InFlight(name) ==
  UNION {{<<o, i>> : i \in {j \in Suspended(ops[o]) : ops[o].slots[j].name = name}} :
           o \in 1..Len(ops)}

\* the object loadPlugin returns for a plugin the resolver finds
PluginObject(name) ==
  ExtractPlugin(require(resolve(name, config.configPath).resolved))

\* the plugin declares an engines.parcel range the host does not satisfy
Incompatible(name) ==
  LET r == resolve(name, config.configPath)
  IN /\ r.found
     /\ r.pkg.parcel # NoRange
     /\ ~satisfies(PARCEL_VERSION, r.pkg.parcel)

\* C1: overlapping loadPlugin calls for the same identifier that is not yet
\* cached are coalesced: at no time are two resolver requests (and hence two
\* version checks) outstanding for one identifier.
C1_Coalesced == \A name \in PluginNames : Cardinality(InFlight(name)) <= 1

\* C2: once a load of an identifier has completed successfully, every later
\* loadPlugin of it is served from the cache without calling the resolver,
\* and returns the very object the earlier loads returned.
C2_CachedAfterSuccess ==
  \A op \in AllOps : \A slot \in Slots(op) :
    slot.after =>
      /\ slot.cached
      /\ slot.st = "ok"
      /\ slot.val = PluginObject(slot.name)
      /\ \A other \in AllOps : \A s \in Slots(other) :
           (s.name = slot.name /\ s.st = "ok") => s.val = slot.val

\* C2: a second, sequential load of p2 has been served from the cache
C2_Witness ==
  \E first \in done, second \in done :
    /\ first.kind = "loadPlugin" /\ second.kind = "loadPlugin"
    /\ first.names = <<"p2">> /\ second.names = <<"p2">>
    /\ ~first.slots[1].cached /\ first.status = "ok"
    /\ second.slots[1].after /\ second.status = "ok"
    /\ second.ret = first.ret
    /\ resolveCount["p2"] = 1

\* C3: a plugin whose declared engines.parcel range the host version does
\* not satisfy is never in the plugin cache and never returned; each of its
\* loads that has ended has ended in an error, and so has the call.
C3_IncompatibleNeverUsed ==
  \A name \in PluginNames :
    Incompatible(name) =>
      /\ name \notin DOMAIN pluginCache
      /\ \A op \in AllOps :
           /\ \A i \in 1..Len(op.ret) : op.ret[i] # PluginObject(name)
           /\ \A slot \in Slots(op) :
                slot.name = name =>
                  /\ slot.st \in {"resolving", "err"}
                  /\ op.status \in {"pending", "err"}
                  /\ slot.st = "err" => (slot.err = "incompatible" /\ op.status = "err")

\* C3: p1 declares "^2.0.0", the host is 1.9.0, and a load of p1 has failed
C3_Witness ==
  /\ PARCEL_VERSION = <<1, 9, 0>>
  /\ \E op \in done :
       /\ op.kind = "loadPlugin" /\ op.names = <<"p1">>
       /\ op.status = "err" /\ op.err = "incompatible"
       /\ gateCount["p1"] >= 1

\* C4: a successful loadPlugins (directly or through a phase accessor)
\* returns as many plugins as it was given identifiers, the i-th being the
\* plugin of the i-th identifier, in whatever order the loads completed.
C4_InputOrder ==
  \A op \in AllOps :
    op.status = "ok" =>
      /\ Len(op.ret) = Len(op.names)
      /\ \A i \in 1..Len(op.names) : op.ret[i] = PluginObject(op.names[i])

\* C4: the second load completed before the first, the result is in input order
C4_Witness ==
  \E op \in done :
    /\ op.kind = "loadPlugins" /\ op.status = "ok"
    /\ op.names = <<"p1", "p2">>
    /\ op.order = <<2, 1>>
    /\ op.ret = <<PluginObject("p1"), PluginObject("p2")>>

\* C5: the plugin cache is append-only: no step removes an entry or replaces
\* it by a different object.
C5_AppendOnly ==
  [][\A name \in DOMAIN pluginCache :
       /\ name \in DOMAIN pluginCache'
       /\ pluginCache'[name] = pluginCache[name]]_vars

\* C5: two plugins are cached, and p1 was written a second time by a load
\* that overlapped the first
C5_Witness ==
  /\ DOMAIN pluginCache = {"p1", "p2"}
  /\ gateCount["p1"] >= 2

\* ------------------------------------------------------------------------
\* Properties of the phase accessors
\* ------------------------------------------------------------------------
\* the field f of the configuration record is absent or empty
AbsentOrEmpty(f, empty) == f \notin parcelConfig.has \/ parcelConfig[f] = empty

\* the call failed before any load, with the given error
FailedWith(op, error) ==
  op.status = "err" /\ op.err = error /\ op.slots = <<>> /\ op.ret = <<>>

\* the call returned the empty sequence without any load
EmptyResult(op) == op.status = "ok" /\ op.ret = <<>> /\ op.slots = <<>>

\* C8: getResolvers fails when resolvers is absent or empty, getBundler when
\* bundler is absent, getNamers when namers is absent or empty, getPackager
\* when no packagers pattern matches the path, getTransformers when the
\* composed pipeline for the path is empty; none returns a result instead.
C8_MandatoryPhases ==
  \A op \in AllOps :
    /\ (op.kind = "getResolvers" /\ AbsentOrEmpty("resolvers", <<>>))
         => FailedWith(op, "No resolver plugins specified")
    /\ (op.kind = "getBundler" /\ "bundler" \notin parcelConfig.has)
         => FailedWith(op, "No bundler specified")
    /\ (op.kind = "getNamers" /\ AbsentOrEmpty("namers", <<>>))
         => FailedWith(op, "No namer plugins specified")
    /\ (op.kind = "getPackager" /\ MatchingIndices(op.filePath, config.packagers) = {})
         => FailedWith(op, "No packager found")
    /\ (/\ op.kind = "getTransformers"
        /\ ~matchGlobMapPipelines(op.filePath, config.transforms).threw
        /\ matchGlobMapPipelines(op.filePath, config.transforms).pipeline = <<>>)
         => FailedWith(op, "No transformers found")

\* C8: resolvers present and empty, transforms whose matches compose to the
\* empty pipeline: both calls have failed
C8_Witness ==
  /\ "resolvers" \in parcelConfig.has
  /\ MatchingIndices(PathXModuleCss, config.transforms) # {}
  /\ \E a \in done, b \in done :
       /\ a.kind = "getResolvers" /\ a.status = "err"
       /\ b.kind = "getTransformers" /\ b.filePath = PathXModuleCss
       /\ b.err = "No transformers found"

\* C9: getRuntimes for a context without an entry and getOptimizers for a
\* path that no pattern matches return the empty sequence, without an error
\* and without a load; matchGlobMapPipelines with no matching pattern
\* returns the empty pipeline.
C9_OptionalPhases ==
  /\ \A op \in AllOps :
       /\ (op.kind = "getRuntimes" /\ ~HasKey(config.runtimes, op.context))
            => EmptyResult(op)
       /\ (op.kind = "getOptimizers"
             /\ MatchingIndices(op.filePath, config.optimizers) = {})
            => EmptyResult(op)
  /\ \A filePath \in FilePaths :
       \A globMap \in {config.transforms, config.optimizers} :
         MatchingIndices(filePath, globMap) = {} =>
           /\ ~matchGlobMapPipelines(filePath, globMap).threw
           /\ matchGlobMapPipelines(filePath, globMap).pipeline = <<>>

\* C9: optimizers are configured, none for x.module.css; runtimes are
\* configured, none for node: both calls returned the empty sequence
C9_Witness ==
  /\ config.optimizers # <<>> /\ config.runtimes # <<>>
  /\ \E a \in done, b \in done :
       /\ a.kind = "getRuntimes" /\ a.context = "node" /\ EmptyResult(a)
       /\ b.kind = "getOptimizers" /\ b.filePath = PathXModuleCss /\ EmptyResult(b)
       /\ resolveCount = Zero

\* ------------------------------------------------------------------------
\* Properties of the glob lookups
\* ------------------------------------------------------------------------
\* the pipelines of the entries that match gPath, in declaration order
Matched == CollectMatches(gPath, gMap, 1)

\* number of spread markers of a pipeline
Spreads(pipeline) == Cardinality({i \in 1..Len(pipeline) : pipeline[i] = SPREAD})

\* the entries of a pipeline before and after its first spread marker
Before(pipeline) == SubSeq(pipeline, 1, indexOf(pipeline, SPREAD) - 1)
After(pipeline) == SubSeq(pipeline, indexOf(pipeline, SPREAD) + 1, Len(pipeline))

\* C6: when two entries match the path, the first-declared one holding a
\* spread marker and the second none, matchGlobMapPipelines returns the
\* first pipeline's entries before the marker, the second pipeline, and the
\* first pipeline's entries after the marker.
C6_SpreadSplice ==
  (/\ gOut.called = "matchGlobMapPipelines"
   /\ Len(Matched) = 2
   /\ Spreads(Matched[1]) = 1
   /\ Spreads(Matched[2]) = 0)
  => /\ ~gOut.threw
     /\ gOut.pipeline = Before(Matched[1]) \o Matched[2] \o After(Matched[1])

\* C6: ["p1", "..."] composed with ["p2"] gives ["p1", "p2"], and the lookup
\* has also seen an entry that does not match
C6_Witness ==
  /\ gOut.called = "matchGlobMapPipelines"
  /\ gPath = PathXModuleCss
  /\ Len(gMap) = 3
  /\ Matched = << <<"p1", SPREAD>>, <<"p2">> >>
  /\ gOut.pipeline = <<"p1", "p2">>

\* the matching entries that flatten reaches: every matching entry declared
\* before them holds a spread marker
Reached ==
  {i \in 1..Len(Matched) : \A j \in 1..(i - 1) : Spreads(Matched[j]) >= 1}

\* C7 as claimed: a matching entry with two or more spread markers makes
\* matchGlobMapPipelines fail.
C7_AnyDoubleSpreadFails ==
  (/\ gOut.called = "matchGlobMapPipelines"
   /\ \E i \in 1..Len(Matched) : Spreads(Matched[i]) >= 2)
  => gOut.threw

\* C7, amended: a matching entry with two or more spread markers makes
\* matchGlobMapPipelines fail if every matching entry declared before it
\* holds a spread marker.
C7_ReachedDoubleSpreadFails ==
  (/\ gOut.called = "matchGlobMapPipelines"
   /\ \E i \in Reached : Spreads(Matched[i]) >= 2)
  => gOut.threw

\* C7: the doubled marker is in the second matching entry, reached through
\* the spread marker of the first
C7_Witness ==
  /\ gOut.called = "matchGlobMapPipelines"
  /\ Len(Matched) >= 2
  /\ Spreads(Matched[1]) = 1
  /\ Spreads(Matched[2]) = 2
  /\ gOut.threw

\* C10: matchGlobMap returns the value of the first entry, in declaration
\* order, whose pattern matches the path, and null when none matches.
C10_FirstMatch ==
  gOut.called = "matchGlobMap" =>
    LET hits == MatchingIndices(gPath, gMap)
    IN IF hits = {} THEN gOut.value = NULL
       ELSE \E i \in hits : /\ \A j \in hits : i <= j
                            /\ gOut.value = gMap[i].value

\* C10: {"*.css": p1, "*.module.css": p2} and x.module.css give p1
C10_Witness ==
  /\ gOut.called = "matchGlobMap"
  /\ gMap = <<Entry(GlobCss, "p1"), Entry(GlobModuleCss, "p2")>>
  /\ gPath = PathXModuleCss
  /\ gOut.value = "p1"

\* ------------------------------------------------------------------------
\* Resolution failure and the missing engines.parcel range
\* ------------------------------------------------------------------------
\* localRequire.resolve rejects the identifier
NotFound(name) == ~resolve(name, config.configPath).found

\* the package metadata of the identifier declares no engines.parcel range
DeclaresNoRange(name) ==
  LET r == resolve(name, config.configPath)
  IN r.found /\ r.pkg.parcel = NoRange

\* the declared engines.parcel range of the identifier is satisfied
RangeSatisfied(name) ==
  LET r == resolve(name, config.configPath)
  IN /\ r.found
     /\ r.pkg.parcel # NoRange
     /\ satisfies(PARCEL_VERSION, r.pkg.parcel)

\* C11: if module resolution fails for an identifier, a load of it fails
\* with that error after exactly one resolution attempt, the cache gets no
\* entry for it, and every loadPlugins call or phase accessor whose pipeline
\* contains it fails as well.
C11_ResolutionFailure ==
  \A name \in PluginNames : NotFound(name) =>
    /\ name \notin DOMAIN pluginCache
    /\ gateCount[name] = 0
    /\ \A op \in AllOps : \A slot \in Slots(op) : slot.name = name =>
         /\ ~slot.cached
         /\ slot.attempts = 1
         /\ slot.st \in {"resolving", "err"}
         /\ op.status # "ok"
         /\ slot.st = "err" =>
              /\ slot.err = "not found"
              /\ op.status = "err"
              /\ op.kind = "loadPlugin" => op.err = "not found"

\* C11: the resolvers <<p3, p2>> were loaded, p3 was not found, p2 was
\* loaded, and the call failed with the resolution error
C11_Witness ==
  \E op \in done :
    /\ op.kind = "getResolvers"
    /\ op.names = <<"p3", "p2">>
    /\ op.slots[1].st = "err" /\ op.slots[1].err = "not found"
    /\ op.slots[2].st = "ok"
    /\ op.status = "err" /\ op.err = "not found"
    /\ resolveCount["p3"] = 1

\* C12: a resolvable plugin whose package metadata declares no engines.parcel
\* range is loaded with a warning and without failing: every completed load
\* of it warned once and ended with the plugin object returned and cached,
\* exactly as a load of a plugin whose declared range is satisfied, which
\* ends the same way without a warning.
C12_NoRangeWarns ==
  \A name \in PluginNames :
    /\ DeclaresNoRange(name) => warnCount[name] = gateCount[name]
    /\ RangeSatisfied(name) => warnCount[name] = 0
    /\ (DeclaresNoRange(name) \/ RangeSatisfied(name)) =>
         \A op \in AllOps : \A slot \in Slots(op) :
           (slot.name = name /\ ~slot.cached /\ slot.st # "resolving") =>
             /\ slot.st = "ok"
             /\ slot.val = PluginObject(name)
             /\ Get(pluginCache, name) = slot.val
             /\ gateCount[name] >= 1

\* C12: p2, which declares no range, has been loaded and cached with one
\* warning
C12_Witness ==
  /\ DeclaresNoRange("p2")
  /\ warnCount["p2"] = 1
  /\ "p2" \in DOMAIN pluginCache
  /\ \E op \in done : /\ op.kind = "loadPlugin"
                       /\ op.names = <<"p2">>
                       /\ op.status = "ok"
                       /\ ~op.slots[1].cached

\* ------------------------------------------------------------------------
\* Spread flattening and glob matching, continued
\* ------------------------------------------------------------------------
\* C13: when exactly one pattern matches the path and its pipeline holds one
\* spread marker, matchGlobMapPipelines returns that pipeline without the
\* marker (the spread expands to the empty sequence), the other entries in
\* their declared order.
C13_LoneSpreadVanishes ==
  (/\ gOut.called = "matchGlobMapPipelines"
   /\ Len(Matched) = 1
   /\ Spreads(Matched[1]) = 1)
  => /\ ~gOut.threw
     /\ gOut.pipeline = Before(Matched[1]) \o After(Matched[1])

\* C13: a map of two entries, the one that matches holds a plugin and the
\* spread marker, and the lookup returned the plugin alone
C13_Witness ==
  /\ gOut.called = "matchGlobMapPipelines"
  /\ Len(gMap) = 2
  /\ Len(Matched) = 1
  /\ Spreads(Matched[1]) = 1
  /\ Len(Matched[1]) >= 2
  /\ ~gOut.threw
  /\ Len(gOut.pipeline) = Len(Matched[1]) - 1

\* C15: isGlobMatch(F, P) is true exactly when P matches the full path F or
\* P, a one-segment pattern, matches the last segment of F.
C15_FullPathOrBasename ==
  gOut.called = "isGlobMatch" =>
    (gOut.matched <=>
       \/ isMatch(gPath, gOut.pattern)
       \/ /\ Len(gOut.pattern) = 1
          /\ SegmentMatch(gPath[Len(gPath)], gOut.pattern[1]))

\* C15: "*.css" matches src/x.module.css by its basename only
C15_Witness ==
  /\ gOut.called = "isGlobMatch"
  /\ gPath = PathSrcXModuleCss
  /\ gOut.pattern = GlobCss
  /\ ~isMatch(gPath, gOut.pattern)
  /\ gOut.matched

\* C16: the flattening of matchGlobMapPipelines terminates with a result,
\* and the number of calls flatten makes of itself, one inside the other
\* (its activations less the outermost one), is at most the number of
\* patterns of the map that match the path.
C16_DepthBounded ==
  gOut.called = "matchGlobMapPipelines" =>
    /\ gOut.depth >= 1
    /\ gOut.depth - 1 <= Cardinality(MatchingIndices(gPath, gMap))

\* C16: the bound is met: two entries match, both hold a spread marker,
\* and flatten called itself twice
C16_Witness ==
  /\ gOut.called = "matchGlobMapPipelines"
  /\ Len(gMap) = 3
  /\ Cardinality(MatchingIndices(gPath, gMap)) = 2
  /\ gOut.depth - 1 = 2

\* C17: a pipeline that matchGlobMapPipelines returns holds no spread
\* marker, so none reaches loadPlugin through getTransformers or
\* getOptimizers.
C17_NoSpreadReturned ==
  (gOut.called = "matchGlobMapPipelines" /\ ~gOut.threw)
    => ~includes(gOut.pipeline, SPREAD)

\* C17: a pipeline composed through a spread marker has been returned
C17_Witness ==
  /\ gOut.called = "matchGlobMapPipelines"
  /\ ~gOut.threw
  /\ Len(Matched) >= 2
  /\ Spreads(Matched[1]) = 1
  /\ Len(gOut.pipeline) >= 2

\* the matches flatten consumes: those up to and including the first one
\* without a spread marker
Consumed ==
  IF \E i \in 1..Len(Matched) : Spreads(Matched[i]) = 0
  THEN SubSeq(Matched, 1, CHOOSE i \in 1..Len(Matched) :
                            /\ Spreads(Matched[i]) = 0
                            /\ \A j \in 1..(i - 1) : Spreads(Matched[j]) >= 1)
  ELSE Matched

\* the nested composition: each pipeline with the composition of the ones
\* after it in place of its first spread marker
RECURSIVE Nest(_)
Nest(pipelines) ==
  IF pipelines = <<>> THEN <<>>
  ELSE IF Spreads(Head(pipelines)) = 0 THEN Head(pipelines)
  ELSE Before(Head(pipelines)) \o Nest(Tail(pipelines)) \o After(Head(pipelines))

\* C18: matchGlobMapPipelines consumes the matched pipelines in declaration
\* order up to the first one without a spread marker: it fails exactly when
\* one of these holds two or more markers, and otherwise returns their
\* nested composition; the matches declared after them change nothing and
\* are not checked for doubled markers.
C18_ConsumedPrefixOnly ==
  gOut.called = "matchGlobMapPipelines" =>
    /\ gOut.threw <=> \E i \in 1..Len(Consumed) : Spreads(Consumed[i]) >= 2
    /\ ~gOut.threw => gOut.pipeline = Nest(Consumed)

\* C18: three entries match; the second has no spread marker, the third
\* has two, and the lookup returned the composition of the first two
C18_Witness ==
  /\ gOut.called = "matchGlobMapPipelines"
  /\ Len(Matched) = 3
  /\ Spreads(Matched[1]) = 1
  /\ Spreads(Matched[2]) = 0 /\ Len(Matched[2]) >= 1
  /\ Spreads(Matched[3]) = 2
  /\ ~gOut.threw
  /\ gOut.pipeline = Before(Matched[1]) \o Matched[2] \o After(Matched[1])

\* ------------------------------------------------------------------------
\* Frame of the operations, and failures before any load
\* ------------------------------------------------------------------------
\* C14: no operation changes the registry fields or configPath after
\* construction: every step leaves them (and the configuration record and
\* host version they were built from) as they are; the step in which an
\* operation is called, glob lookups included, leaves the plugin cache
\* unchanged too, which only the completion of a load writes.
C14_RegistriesFrozen ==
  [][/\ config' = config
     /\ parcelConfig' = parcelConfig
     /\ PARCEL_VERSION' = PARCEL_VERSION
     /\ nCalls' # nCalls => pluginCache' = pluginCache]_vars

\* C14: accessors with glob lookups and loads have run, the cache has been
\* written, and the registries are those the constructor built
C14_Witness ==
  /\ pluginCache # EmptyMap
  /\ config = Constructor(parcelConfig, config.configPath)
  /\ Len(config.transforms) >= 2
  /\ \E op \in done : /\ op.kind = "getTransformers"
                       /\ op.status = "ok"
                       /\ \E slot \in Slots(op) : ~slot.cached

\* the errors an accessor throws by itself
AccessorErrors ==
  {"No resolver plugins specified", "Only one spread parameter",
   "No transformers found", "No bundler specified",
   "No namer plugins specified", "No packager found"}

\* the registries make the call fail: a mandatory phase is missing, no
\* transformer or packager matches the path, or the composition fails
FailsByConfiguration(op) ==
  \/ op.kind = "getResolvers" /\ Len(config.resolvers) = 0
  \/ op.kind = "getBundler" /\ config.bundler = ""
  \/ op.kind = "getNamers" /\ Len(config.namers) = 0
  \/ op.kind = "getPackager" /\ MatchingIndices(op.filePath, config.packagers) = {}
  \/ /\ op.kind = "getTransformers"
     /\ LET transformers == matchGlobMapPipelines(op.filePath, config.transforms)
        IN transformers.threw \/ transformers.pipeline = <<>>
  \/ /\ op.kind = "getOptimizers"
     /\ matchGlobMapPipelines(op.filePath, config.optimizers).threw

\* C19: a phase accessor that fails with a configuration error or a
\* composition error fails before it issues any load: the call has no load,
\* so it asked the resolver nothing and wrote nothing to the plugin cache;
\* and only such calls end with these errors.
C19_FailsBeforeLoading ==
  \A op \in AllOps :
    /\ FailsByConfiguration(op) =>
         /\ op.status = "err"
         /\ op.err \in AccessorErrors
         /\ op.slots = <<>>
         /\ op.names = <<>>
    /\ op.err \in AccessorErrors =>
         /\ FailsByConfiguration(op)
         /\ op.slots = <<>>
    /\ (\A other \in AllOps : other.slots = <<>>) =>
         /\ resolveCount = Zero
         /\ pluginCache = EmptyMap

\* C19: getTransformers has failed with the composition error and
\* getPackager for want of a match; the resolver was never asked and the
\* cache is empty
C19_Witness ==
  /\ \E a \in done, b \in done :
       /\ a.kind = "getTransformers" /\ a.err = "Only one spread parameter"
       /\ b.kind = "getPackager" /\ b.err = "No packager found"
  /\ resolveCount = Zero
  /\ pluginCache = EmptyMap

\* ------------------------------------------------------------------------
\* Completion of the loads
\* ------------------------------------------------------------------------
\* the resolver finds the identifier and the version check lets it through
Loadable(name) == DeclaresNoRange(name) \/ RangeSatisfied(name)

\* a call that has failed while a load of it for a loadable identifier is
\* still waiting for the resolver
FailedWithSiblingWaiting(name) ==
  \E o \in 1..Len(ops) :
    /\ ops[o].status = "err"
    /\ \E i \in Suspended(ops[o]) : ops[o].slots[i].name = name

\* C20: the resolver answering every request, every call that waits for it
\* completes, with a result or with an error: whenever calls are pending,
\* later none is.  The loads of a failed call run to their end all the same:
\* in a completed call that failed, every load of a loadable identifier is
\* fulfilled and its plugin is in the cache, and a load still waiting when
\* its call fails gets its plugin into the cache later.
C20_LoadsComplete ==
  /\ [](\A op \in done :
         /\ op.status \in {"ok", "err"}
         /\ Suspended(op) = {}
         /\ op.status = "err" =>
              \A slot \in Slots(op) : Loadable(slot.name) =>
                /\ slot.st = "ok"
                /\ slot.val = PluginObject(slot.name)
                /\ Get(pluginCache, slot.name) = slot.val)
  /\ (ops # <<>>) ~> (ops = <<>>)
  /\ \A name \in PluginNames :
       (Loadable(name) /\ FailedWithSiblingWaiting(name))
         ~> (Get(pluginCache, name) = PluginObject(name))

\* C20: of the resolvers <<p3, p2>> the load of p3 failed first and with it
\* the call; the load of p2 completed afterwards and p2 is in the cache
C20_Witness ==
  \E op \in done :
    /\ op.kind = "getResolvers"
    /\ op.names = <<"p3", "p2">>
    /\ op.status = "err"
    /\ op.order = <<1, 2>>
    /\ op.slots[2].st = "ok" /\ ~op.slots[2].cached
    /\ "p2" \in DOMAIN pluginCache

====
